---- MODULE Spec2Model ----
(***************************************************************************)
(* Model of package cron (src/cron.go): parsing of cron expressions into   *)
(* a Job of five Fields and a task, rendering a Job back to text, and      *)
(* matching a Job against the five components of a time.                   *)
(*                                                                         *)
(* A Go string is modelled as a sequence of one-character strings, so that *)
(* tokenising, splitting, trimming, integer parsing and integer formatting *)
(* are computed character by character as the Go library computes them.    *)
(***************************************************************************)
EXTENDS Integers, Sequences, FiniteSets

(***************************************************************************)
(* Bounds of the model.                                                    *)
(***************************************************************************)
\* longest field token enumerated exhaustively over Alphabet
MaxTokLen == 4
\* most tokens in an enumerated expression (5 time fields + task words)
MaxParts == 7
\* most values in a constructed Field
MaxVals == 2
\* largest value stored in a constructed Field; the smallest is -1
MaxVal == 2
\* largest time component handed to Job.Check
MaxTime == 2

(***************************************************************************)
(* fieldType, src/cron.go:141-148.  Unknown stands for any fieldType value *)
(* outside the six constants, which Go's type system does not exclude.     *)
(***************************************************************************)
Exact == 0
Every == 1
Multiple == 2
Range == 3
Step == 4
Any == 5
Unknown == 6

FieldTypes == {Exact, Every, Multiple, Range, Step, Any}

(***************************************************************************)
(* Characters.                                                             *)
(***************************************************************************)
Digits == <<"0", "1", "2", "3", "4", "5", "6", "7", "8", "9">>

IsDigit(c) == \E i \in 1..10 : Digits[i] = c

DigitVal(c) == (CHOOSE i \in 1..10 : Digits[i] = c) - 1

\* unicode.IsSpace, restricted to the two white-space characters of the model
IsSpace(c) == c \in {" ", "\t"}

(***************************************************************************)
(* Go library functions used by the package.                               *)
(***************************************************************************)
RECURSIVE TrimLeft(_)
TrimLeft(s) ==
    IF s # <<>> /\ IsSpace(Head(s)) THEN TrimLeft(Tail(s)) ELSE s

RECURSIVE TrimRight(_)
TrimRight(s) ==
    IF s # <<>> /\ IsSpace(s[Len(s)])
    THEN TrimRight(SubSeq(s, 1, Len(s) - 1))
    ELSE s

\* strings.TrimSpace
TrimSpace(s) == TrimRight(TrimLeft(s))

\* strings.HasPrefix
HasPrefix(s, p) == Len(s) >= Len(p) /\ SubSeq(s, 1, Len(p)) = p

\* strings.Contains, for a one-character substring
Contains(s, c) == \E i \in 1..Len(s) : s[i] = c

\* strings.Split, for a one-character separator: n separators give n+1
\* segments, empty ones included
RECURSIVE SplitFrom(_, _, _)
SplitFrom(s, c, cur) ==
    IF s = <<>> THEN <<cur>>
    ELSE IF Head(s) = c THEN <<cur>> \o SplitFrom(Tail(s), c, <<>>)
    ELSE SplitFrom(Tail(s), c, Append(cur, Head(s)))

Split(s, c) == SplitFrom(s, c, <<>>)

\* strings.Fields: the maximal runs of non-space characters
RECURSIVE FieldsFrom(_, _)
FieldsFrom(s, cur) ==
    IF s = <<>> THEN (IF cur = <<>> THEN <<>> ELSE <<cur>>)
    ELSE IF IsSpace(Head(s))
         THEN (IF cur = <<>> THEN <<>> ELSE <<cur>>) \o FieldsFrom(Tail(s), <<>>)
         ELSE FieldsFrom(Tail(s), Append(cur, Head(s)))

Fields(s) == FieldsFrom(s, <<>>)

\* strings.Join
RECURSIVE Join(_, _)
Join(parts, sep) ==
    IF parts = <<>> THEN <<>>
    ELSE IF Len(parts) = 1 THEN parts[1]
    ELSE parts[1] \o sep \o Join(Tail(parts), sep)

RECURSIVE DigitsVal(_, _)
DigitsVal(s, acc) ==
    IF s = <<>> THEN acc ELSE DigitsVal(Tail(s), 10 * acc + DigitVal(Head(s)))

\* strconv.Atoi: an optional sign, then one or more decimal digits; anything
\* else is a syntax error.  (The out-of-range error needs 19 digits or more.)
Atoi(s) ==
    LET signed == s # <<>> /\ Head(s) \in {"+", "-"}
        body == IF signed THEN Tail(s) ELSE s
    IN  IF body = <<>> \/ \E i \in 1..Len(body) : ~IsDigit(body[i])
        THEN [val |-> 0, err |-> "invalid syntax"]
        ELSE [val |-> IF signed /\ Head(s) = "-"
                      THEN 0 - DigitsVal(body, 0)
                      ELSE DigitsVal(body, 0),
              err |-> "nil"]

RECURSIVE NatStr(_)
NatStr(n) ==
    IF n < 10 THEN <<Digits[n + 1]>>
    ELSE Append(NatStr(n \div 10), Digits[(n % 10) + 1])

\* strconv.Itoa, and fmt's %d verb
Itoa(n) == IF n < 0 THEN <<"-">> \o NatStr(0 - n) ELSE NatStr(n)

(***************************************************************************)
(* Field, src/cron.go:151-154.  IsNil tells a nil Values slice from an     *)
(* empty one: the two have equal length and differ under reflect.DeepEqual.*)
(***************************************************************************)
MkField(t, vals) == [Type |-> t, Values |-> vals, IsNil |-> FALSE]

\* Field{Type: t}: Values is left nil
NilField(t) == [Type |-> t, Values |-> <<>>, IsNil |-> TRUE]

\* Field{}
ZeroField == NilField(Exact)

RECURSIVE AtoiAll(_)
\* the loop of the comma case: the values of the segments in order, stopping
\* with the error of the first segment that is no integer
AtoiAll(parts) ==
    IF parts = <<>> THEN [vals |-> <<>>, err |-> "nil"]
    ELSE LET a == Atoi(Head(parts))
         IN  IF a.err # "nil" THEN [vals |-> <<>>, err |-> a.err]
             ELSE LET rest == AtoiAll(Tail(parts))
                  IN  IF rest.err # "nil" THEN rest
                      ELSE [vals |-> <<a.val>> \o rest.vals, err |-> "nil"]

\* a Field returned with a nil error, and an error returned with Field{}
Parsed(f) == [field |-> f, err |-> "nil"]

Failed(e) == [field |-> ZeroField, err |-> e]

\* case strings.HasPrefix(s, "*/")
parseStep(s) ==
    LET a == Atoi(SubSeq(s, 3, Len(s)))
    IN  IF a.err # "nil" THEN Failed(a.err)
        ELSE Parsed(MkField(Step, <<a.val>>))

\* case strings.Contains(s, ",")
parseMultiple(s) ==
    LET r == AtoiAll(Split(s, ","))
    IN  IF r.err # "nil" THEN Failed(r.err)
        ELSE Parsed(MkField(Multiple, r.vals))

\* a bug parseRange could have: no test of the number of segments
parseRangeUnchecked(s) ==
    LET r == AtoiAll(Split(s, "-"))
    IN  IF r.err # "nil" THEN Failed(r.err)
        ELSE Parsed(MkField(Range, r.vals))

\* case strings.Contains(s, "-")
parseRange(s) ==
    LET parts == Split(s, "-")
    IN  IF Len(parts) # 2 THEN Failed("invalid range format")
        ELSE LET start == Atoi(parts[1])
                 end == Atoi(parts[2])
             IN  IF start.err # "nil" THEN Failed(start.err)
                 ELSE IF end.err # "nil" THEN Failed(end.err)
                 ELSE Parsed(MkField(Range, <<start.val, end.val>>))

\* default
parseExact(s) ==
    LET a == Atoi(s)
    IN  IF a.err # "nil" THEN Failed(a.err)
        ELSE Parsed(MkField(Exact, <<a.val>>))

\* a bug parseField could have: the dash case tried before the comma case
parseFieldDashFirst(fieldString) ==
    LET s == TrimSpace(fieldString)
    IN  IF s = <<"*">> THEN Parsed(MkField(Every, <<>>))
        ELSE IF HasPrefix(s, <<"*", "/">>) THEN parseStep(s)
        ELSE IF Contains(s, "-") THEN parseRange(s)
        ELSE IF Contains(s, ",") THEN parseMultiple(s)
        ELSE IF s = <<"?">> THEN Parsed(NilField(Any))
        ELSE parseExact(s)

\* parseField: the Field of one token, or an error
parseField(fieldString) ==
    LET s == TrimSpace(fieldString)
    IN  IF s = <<"*">> THEN Parsed(MkField(Every, <<>>))
        ELSE IF HasPrefix(s, <<"*", "/">>) THEN parseStep(s)
        ELSE IF Contains(s, ",") THEN parseMultiple(s)
        ELSE IF Contains(s, "-") THEN parseRange(s)
        ELSE IF s = <<"?">> THEN Parsed(NilField(Any))
        ELSE parseExact(s)

(***************************************************************************)
(* Field.String, src/cron.go:157-190.  The result is the text, or a panic  *)
(* with its message (the message as text, one word per element).           *)
(***************************************************************************)
Words(ws) == Join([i \in 1..Len(ws) |-> <<ws[i]>>], <<" ">>)

Returns(s) == [s |-> s, panic |-> FALSE]

Panics(msg) == [s |-> msg, panic |-> TRUE]

\* a bug RangeText could have: the separator of Multiple
RangeTextComma(a, b) == Itoa(a) \o <<",">> \o Itoa(b)

\* fmt.Sprintf("%d-%d", a, b)
RangeText(a, b) == Itoa(a) \o <<"-">> \o Itoa(b)

\* a bug MultipleText could have: the separator of Range
MultipleTextDash(vals) == Join([i \in 1..Len(vals) |-> Itoa(vals[i])], <<"-">>)

\* strings.Join(multipleStrings, ","), each value through strconv.Itoa
MultipleText(vals) == Join([i \in 1..Len(vals) |-> Itoa(vals[i])], <<",">>)

\* fmt.Sprintf("*/%d", n)
StepText(n) == <<"*", "/">> \o Itoa(n)

FieldString(f) ==
    CASE f.Type = Exact ->
            IF Len(f.Values) # 1
            THEN Panics(Words(<<"Exact", "type", "requires", "1", "value;", "got">>)
                        \o <<" ">> \o Itoa(Len(f.Values)))
            ELSE Returns(Itoa(f.Values[1]))
      [] f.Type = Every -> Returns(<<"*">>)
      [] f.Type = Multiple ->
            IF Len(f.Values) = 0
            THEN Panics(Words(<<"Multiple", "type", "requires", "at", "least",
                                "one", "value">>))
            ELSE Returns(MultipleText(f.Values))
      [] f.Type = Range ->
            IF Len(f.Values) # 2
            THEN Panics(Words(<<"Range", "type", "requires", "exactly", "2", "values">>))
            ELSE Returns(RangeText(f.Values[1], f.Values[2]))
      [] f.Type = Step ->
            IF Len(f.Values) # 1
            THEN Panics(Words(<<"Step", "type", "requires", "1", "value">>))
            ELSE Returns(StepText(f.Values[1]))
      [] f.Type = Any -> Returns(<<"?">>)
      [] OTHER -> Returns(<<"?", "?", "?">>)

\* The %s verb of fmt.Sprintf applied to a Field: fmt calls Field.String and
\* recovers a panic of it, printing the panic value in place of the text.
FmtS(f) ==
    LET r == FieldString(f)
    IN  IF r.panic
        THEN <<"%!s(PANIC=String", " ", "method:", " ">> \o r.s \o <<")">>
        ELSE r.s

(***************************************************************************)
(* Job, src/cron.go:15-22.                                                 *)
(***************************************************************************)
MkJob(mi, h, d, mo, dow, task) ==
    [Minute |-> mi, Hour |-> h, Day |-> d, Month |-> mo, DayOfWeek |-> dow,
     Task |-> task]

\* Job{}
ZeroJob == MkJob(ZeroField, ZeroField, ZeroField, ZeroField, ZeroField, <<>>)

\* the five Fields of a Job in the order of the expression
JobFields(j) == <<j.Minute, j.Hour, j.Day, j.Month, j.DayOfWeek>>

\* Job.String
JobString(j) ==
    TrimSpace(Join(<<FmtS(j.Minute), FmtS(j.Hour), FmtS(j.Day), FmtS(j.Month),
                     FmtS(j.DayOfWeek), j.Task>>, <<" ">>))

(***************************************************************************)
(* Matching.                                                               *)
(***************************************************************************)
\* Go's % for a positive divisor: the remainder has the sign of the dividend
GoRem(a, b) == IF a >= 0 THEN a % b ELSE 0 - ((0 - a) % b)

\* case Exact
checkExact(f, val) == Len(f.Values) = 1 /\ f.Values[1] = val

\* case Multiple
checkMultiple(f, val) == \E i \in 1..Len(f.Values) : f.Values[i] = val

\* case Range
checkRange(f, val) ==
    IF Len(f.Values) # 2 THEN FALSE
    ELSE val >= f.Values[1] /\ val <= f.Values[2]

\* a bug checkStep could have: only the zero divisor is excluded, and Go's %
\* takes a negative divisor as it takes its absolute value
checkStepZeroOnly(f, val) ==
    IF Len(f.Values) # 1 \/ f.Values[1] = 0 THEN FALSE
    ELSE IF f.Values[1] < 0 THEN GoRem(val, 0 - f.Values[1]) = 0
    ELSE GoRem(val, f.Values[1]) = 0

\* case Step
checkStep(f, val) ==
    IF Len(f.Values) # 1 \/ f.Values[1] <= 0 THEN FALSE
    ELSE GoRem(val, f.Values[1]) = 0

\* a bug check could have: Any taken as the wildcard it is in other dialects
checkAnyMatches(f, val) ==
    CASE f.Type = Exact -> checkExact(f, val)
      [] f.Type = Every -> TRUE
      [] f.Type = Multiple -> checkMultiple(f, val)
      [] f.Type = Range -> checkRange(f, val)
      [] f.Type = Step -> checkStep(f, val)
      [] f.Type = Any -> TRUE
      [] OTHER -> FALSE

\* Field.check
check(f, val) ==
    CASE f.Type = Exact -> checkExact(f, val)
      [] f.Type = Every -> TRUE
      [] f.Type = Multiple -> checkMultiple(f, val)
      [] f.Type = Range -> checkRange(f, val)
      [] f.Type = Step -> checkStep(f, val)
      [] f.Type = Any -> FALSE
      [] OTHER -> FALSE

\* a bug Check could have: the day and the month handed to each other's Field
CheckDayMonthSwapped(j, t) ==
    /\ check(j.Minute, t[1])
    /\ check(j.Hour, t[2])
    /\ check(j.Day, t[4])
    /\ check(j.Month, t[3])
    /\ check(j.DayOfWeek, t[5])

\* Job.Check, for a time t given as <<Minute(), Hour(), Day(), Month(), Weekday()>>
Check(j, t) ==
    /\ check(j.Minute, t[1])
    /\ check(j.Hour, t[2])
    /\ check(j.Day, t[3])
    /\ check(j.Month, t[4])
    /\ check(j.DayOfWeek, t[5])

(***************************************************************************)
(* Parse, src/cron.go:103-133.                                             *)
(***************************************************************************)
NoErr == [kind |-> "nil", got |-> 0, field |-> "", cause |-> ""]

\* fmt.Errorf("expected at least 6 fields (5 time + task), got %d", n)
CountErr(n) == [kind |-> "count", got |-> n, field |-> "", cause |-> ""]

\* fmt.Errorf("<name> field: %w", cause)
FieldErr(name, cause) == [kind |-> "field", got |-> 0, field |-> name, cause |-> cause]

\* a bug ParseFields could have: the day field's failure reported as the hour's
ParseFieldsMislabelled(timeFields, task) ==
    LET mi == parseField(timeFields[1])
        h == parseField(timeFields[2])
        d == parseField(timeFields[3])
        mo == parseField(timeFields[4])
        dow == parseField(timeFields[5])
    IN  IF mi.err # "nil" THEN [job |-> ZeroJob, err |-> FieldErr("minute", mi.err)]
        ELSE IF h.err # "nil" THEN [job |-> ZeroJob, err |-> FieldErr("hour", h.err)]
        ELSE IF d.err # "nil" THEN [job |-> ZeroJob, err |-> FieldErr("hour", d.err)]
        ELSE IF mo.err # "nil" THEN [job |-> ZeroJob, err |-> FieldErr("month", mo.err)]
        ELSE IF dow.err # "nil"
             THEN [job |-> ZeroJob, err |-> FieldErr("dayOfWeek", dow.err)]
        ELSE [job |-> MkJob(mi.field, h.field, d.field, mo.field, dow.field, task),
              err |-> NoErr]

\* the second half of Parse: the five time fields in order, the first failure
\* returned with the name of its field
ParseFields(timeFields, task) ==
    LET mi == parseField(timeFields[1])
        h == parseField(timeFields[2])
        d == parseField(timeFields[3])
        mo == parseField(timeFields[4])
        dow == parseField(timeFields[5])
    IN  IF mi.err # "nil" THEN [job |-> ZeroJob, err |-> FieldErr("minute", mi.err)]
        ELSE IF h.err # "nil" THEN [job |-> ZeroJob, err |-> FieldErr("hour", h.err)]
        ELSE IF d.err # "nil" THEN [job |-> ZeroJob, err |-> FieldErr("day", d.err)]
        ELSE IF mo.err # "nil" THEN [job |-> ZeroJob, err |-> FieldErr("month", mo.err)]
        ELSE IF dow.err # "nil"
             THEN [job |-> ZeroJob, err |-> FieldErr("dayOfWeek", dow.err)]
        ELSE [job |-> MkJob(mi.field, h.field, d.field, mo.field, dow.field, task),
              err |-> NoErr]

\* a bug Parse could have: the task demanded as a sixth token
ParseSixTokens(expression) ==
    LET parts == Fields(expression)
    IN  IF Len(parts) < 6 THEN [job |-> ZeroJob, err |-> CountErr(Len(parts))]
        ELSE ParseFields(SubSeq(parts, 1, 5),
                         Join(SubSeq(parts, 6, Len(parts)), <<" ">>))

Parse(expression) ==
    LET parts == Fields(expression)
    IN  IF Len(parts) < 5 THEN [job |-> ZeroJob, err |-> CountErr(Len(parts))]
        ELSE ParseFields(SubSeq(parts, 1, 5),
                         Join(SubSeq(parts, 6, Len(parts)), <<" ">>))

(***************************************************************************)
(* Inputs.                                                                 *)
(***************************************************************************)
\* the characters of field tokens: the five punctuation characters of the
\* syntax, two digits and the sign that Atoi accepts besides "-"
Alphabet == {"*", "/", ",", "-", "?", "0", "2", "+"}

\* every token of 1..MaxTokLen characters
Tokens == UNION {[1..n -> Alphabet] : n \in 1..MaxTokLen}

\* tokens of whole expressions: accepted, accepted but never matching, rejected
Plain == {<<"*">>, <<"?">>, <<"/">>}

\* tokens put at one place of an otherwise plain expression
Probes ==
    {<<"2">>, <<"0", "2">>, <<"+", "2">>, <<"-", "2">>,
     <<"*", "/", "2">>, <<"*", "/", "0">>, <<"*", "/", "-", "2">>,
     <<"2", ",", "0">>, <<"-", "2", ",", "0">>, <<"2", ",">>,
     <<"0", "-", "2">>, <<"2", "-", "0">>, <<"0", "-", "2", "-", "2">>,
     <<"0", "-", "2", ",", "2">>, <<"a">>}

PlainParts == UNION {[1..n -> Plain] : n \in 0..MaxParts}

ProbeParts ==
    {[i \in 1..n |-> IF i = p THEN t ELSE <<"*">>] :
        n \in 5..MaxParts, p \in 1..MaxParts, t \in Probes}

\* white space before, between and after the tokens
Layouts ==
    {[lead |-> <<>>, sep |-> <<" ">>, trail |-> <<>>],
     [lead |-> <<" ">>, sep |-> <<" ", " ">>, trail |-> <<"\t">>],
     [lead |-> <<>>, sep |-> <<"\t", " ">>, trail |-> <<" ">>]}

Layout(parts, l) == l.lead \o Join(parts, l.sep) \o l.trail

Expressions == {Layout(parts, l) : parts \in PlainParts \cup ProbeParts, l \in Layouts}

\* the values of constructed Fields
Vals == (0 - 1)..MaxVal

ValSeqs == UNION {[1..n -> Vals] : n \in 0..MaxVals}

\* every Field the exported struct lets a caller build, consistent or not
ConstructedFields ==
    {MkField(t, vs) : t \in FieldTypes \cup {Unknown}, vs \in ValSeqs}
    \cup {NilField(t) : t \in FieldTypes \cup {Unknown}}

Fillers == {MkField(Every, <<>>), MkField(Exact, <<1>>)}

ConstructedTasks == {<<>>, <<" ">>, <<"a">>, <<" ", "a", " ", "\t", "b", " ">>}

ConstructedJobs ==
    {MkJob(IF p = 1 THEN f ELSE g, IF p = 2 THEN f ELSE g, IF p = 3 THEN f ELSE g,
           IF p = 4 THEN f ELSE g, IF p = 5 THEN f ELSE g, task) :
        p \in 1..5, f \in ConstructedFields, g \in Fillers, task \in ConstructedTasks}

\* times as <<minute, hour, day, month, weekday>>: one component takes every
\* value up to MaxTime, the others share a value; day and month start at 1
Times ==
    {t \in {[i \in 1..5 |-> IF i = p THEN v ELSE b] :
                p \in 1..5, v \in 0..MaxTime, b \in 1..2} :
        t[3] >= 1 /\ t[4] >= 1}

(***************************************************************************)
(* State.                                                                  *)
(***************************************************************************)
VARIABLES
    pc,        \* what has been done so far
    input,     \* the text handed to Parse, or the token handed to parseField
    job, err,  \* the Job at hand: the result of Parse(input), or constructed
    rendered,  \* job.String(), and the Fields whose Field.String panicked
    job2, err2,\* the result of Parse(rendered.s)
    tm,        \* the time handed to job.Check
    matched,   \* the result of job.Check(tm)
    fres,      \* the result of parseField(input)
    ftext,     \* the result of fres.field.String()
    fres2      \* the result of parseField(ftext.s)

vars == <<pc, input, job, err, rendered, job2, err2, tm, matched, fres, ftext, fres2>>

NoRender == [s |-> <<>>, faults |-> {}]

NoFieldRes == [field |-> ZeroField, err |-> "nil"]

Blank ==
    /\ job = ZeroJob /\ err = NoErr
    /\ rendered = NoRender
    /\ job2 = ZeroJob /\ err2 = NoErr
    /\ tm = <<0, 0, 1, 1, 0>> /\ matched = FALSE
    /\ fres = NoFieldRes /\ ftext = Returns(<<>>) /\ fres2 = NoFieldRes

(***************************************************************************)
(* Operations on whole expressions and Jobs.                               *)
(***************************************************************************)
\* job, err := Parse(input)
ParseStep ==
    /\ pc = "start"
    /\ job' = Parse(input).job
    /\ err' = Parse(input).err
    /\ pc' = "parsed"
    /\ UNCHANGED <<input, rendered, job2, err2, tm, matched, fres, ftext, fres2>>

\* job.String(), on a Job that Parse returned without error or that was constructed
RenderStep ==
    /\ pc \in {"parsed", "built"}
    /\ err = NoErr
    /\ rendered' = [s |-> JobString(job),
                    faults |-> {i \in 1..5 : FieldString(JobFields(job)[i]).panic}]
    /\ pc' = "rendered"
    /\ UNCHANGED <<input, job, err, job2, err2, tm, matched, fres, ftext, fres2>>

\* job2, err2 := Parse(job.String())
ReparseStep ==
    /\ pc = "rendered"
    /\ job2' = Parse(rendered.s).job
    /\ err2' = Parse(rendered.s).err
    /\ pc' = "reparsed"
    /\ UNCHANGED <<input, job, err, rendered, tm, matched, fres, ftext, fres2>>

\* job.Check(t)
CheckStep ==
    /\ pc \in {"parsed", "built"}
    /\ err = NoErr
    /\ \E t \in Times :
        /\ tm' = t
        /\ matched' = Check(job, t)
    /\ pc' = "checked"
    /\ UNCHANGED <<input, job, err, rendered, job2, err2, fres, ftext, fres2>>

(***************************************************************************)
(* Operations on single tokens and Fields.                                 *)
(***************************************************************************)
\* parseField(input)
FieldParse ==
    /\ pc = "token"
    /\ fres' = parseField(input)
    /\ pc' = "fparsed"
    /\ UNCHANGED <<input, job, err, rendered, job2, err2, tm, matched, ftext, fres2>>

\* fres.field.String()
FieldRender ==
    /\ pc = "fparsed"
    /\ fres.err = "nil"
    /\ ftext' = FieldString(fres.field)
    /\ pc' = "frendered"
    /\ UNCHANGED <<input, job, err, rendered, job2, err2, tm, matched, fres, fres2>>

\* parseField(fres.field.String())
FieldReparse ==
    /\ pc = "frendered"
    /\ ~ftext.panic
    /\ fres2' = parseField(ftext.s)
    /\ pc' = "freparsed"
    /\ UNCHANGED <<input, job, err, rendered, job2, err2, tm, matched, fres, ftext>>

(***************************************************************************)
(* Specifications.                                                         *)
(***************************************************************************)
\* an expression is parsed, then rendered and parsed again, or matched
Init == pc = "start" /\ input \in Expressions /\ Blank

Next == ParseStep \/ RenderStep \/ ReparseStep \/ CheckStep

Spec == Init /\ [][Next]_vars

\* a Job is constructed, then rendered and parsed, or matched
InitConstruct ==
    /\ pc = "built" /\ input = <<>>
    /\ job \in ConstructedJobs /\ err = NoErr
    /\ rendered = NoRender
    /\ job2 = ZeroJob /\ err2 = NoErr
    /\ tm = <<0, 0, 1, 1, 0>> /\ matched = FALSE
    /\ fres = NoFieldRes /\ ftext = Returns(<<>>) /\ fres2 = NoFieldRes

NextConstruct == RenderStep \/ ReparseStep \/ CheckStep

SpecConstruct == InitConstruct /\ [][NextConstruct]_vars

\* a token is parsed into a Field, which is rendered and parsed again
InitField == pc = "token" /\ input \in Tokens /\ Blank

NextField == FieldParse \/ FieldRender \/ FieldReparse

SpecField == InitField /\ [][NextField]_vars

(***************************************************************************)
(* Vocabulary of the properties, stated on the text and on the data model  *)
(* rather than through the operations above.                               *)
(***************************************************************************)
\* s is a decimal integer: an optional sign and at least one digit
IsInt(s) ==
    LET body == IF s # <<>> /\ s[1] \in {"+", "-"} THEN Tail(s) ELSE s
    IN  body # <<>> /\ \A i \in 1..Len(body) : IsDigit(body[i])

IsStar(t) == t = <<"*">>

IsStepShaped(t) == ~IsStar(t) /\ HasPrefix(t, <<"*", "/">>)

IsListShaped(t) == ~IsStar(t) /\ ~IsStepShaped(t) /\ Contains(t, ",")

IsRangeShaped(t) ==
    ~IsStar(t) /\ ~IsStepShaped(t) /\ ~Contains(t, ",") /\ Contains(t, "-")

IsMark(t) == t = <<"?">>

IsPlainShaped(t) ==
    ~IsStar(t) /\ ~IsStepShaped(t) /\ ~Contains(t, ",") /\ ~Contains(t, "-")
    /\ ~IsMark(t)

\* the token is well-formed under the rule that its shape selects
WellFormed(t) ==
    \/ IsStar(t)
    \/ IsStepShaped(t) /\ IsInt(SubSeq(t, 3, Len(t)))
    \/ IsListShaped(t) /\ \A i \in 1..Len(Split(t, ",")) : IsInt(Split(t, ",")[i])
    \/ IsRangeShaped(t) /\ Len(Split(t, "-")) = 2
                        /\ IsInt(Split(t, "-")[1]) /\ IsInt(Split(t, "-")[2])
    \/ IsMark(t)
    \/ IsPlainShaped(t) /\ IsInt(t)

\* the number of values agrees with the kind (the data model's invariant)
Consistent(f) ==
    CASE f.Type \in {Exact, Step} -> Len(f.Values) = 1
      [] f.Type \in {Every, Any} -> Len(f.Values) = 0
      [] f.Type = Multiple -> Len(f.Values) >= 1
      [] f.Type = Range -> Len(f.Values) = 2
      [] OTHER -> FALSE

FieldNames == <<"minute", "hour", "day", "month", "dayOfWeek">>

\* the tokens of the input, once Parse has run on it
InputTokens == Fields(input)

HasParsed == pc \in {"parsed", "rendered", "reparsed", "checked"}

(***************************************************************************)
(* C2.  parseField dispatches on the token by six rules in fixed order,    *)
(* first match wins: "*" is Every; a token starting with "*/" is Step with *)
(* the integer after the prefix; else a token containing "," is Multiple   *)
(* with the segments' integers in textual order; else a token containing   *)
(* "-" is Range of its two segments and fails unless there are exactly     *)
(* two; else "?" is Any; else the whole token as an integer is Exact.  A   *)
(* token matching an earlier rule is never handled by a later one.         *)
(***************************************************************************)
DispatchInOrder ==
    pc # "token" =>
        LET t == input
            f == fres.field
            ok == fres.err = "nil"
        IN  /\ IsStar(t) => ok /\ f.Type = Every /\ f.Values = <<>>
            /\ IsStepShaped(t) =>
                IF IsInt(SubSeq(t, 3, Len(t)))
                THEN ok /\ f.Type = Step
                        /\ f.Values = <<Atoi(SubSeq(t, 3, Len(t))).val>>
                ELSE ~ok
            /\ IsListShaped(t) =>
                LET segs == Split(t, ",")
                IN  IF \A i \in 1..Len(segs) : IsInt(segs[i])
                    THEN ok /\ f.Type = Multiple
                            /\ f.Values = [i \in 1..Len(segs) |-> Atoi(segs[i]).val]
                    ELSE ~ok
            /\ IsRangeShaped(t) =>
                LET segs == Split(t, "-")
                IN  IF Len(segs) = 2 /\ IsInt(segs[1]) /\ IsInt(segs[2])
                    THEN ok /\ f.Type = Range
                            /\ f.Values = <<Atoi(segs[1]).val, Atoi(segs[2]).val>>
                    ELSE ~ok
            /\ IsMark(t) => ok /\ f.Type = Any /\ f.Values = <<>>
            /\ IsPlainShaped(t) =>
                IF IsInt(t) THEN ok /\ f.Type = Exact /\ f.Values = <<Atoi(t).val>>
                ELSE ~ok

\* a token with a comma and a dash has been parsed, as a list in textual order
DispatchInOrderWitness ==
    /\ pc = "fparsed"
    /\ Contains(input, ",") /\ Contains(input, "-")
    /\ fres.err = "nil"
    /\ fres.field.Type = Multiple
    /\ fres.field.Values[1] > fres.field.Values[2]

(***************************************************************************)
(* C8.  For a token starting with "*/", the remainder is accepted only as  *)
(* a non-negative integer: every Step Field that parsing produces holds    *)
(* exactly one value n with n >= 0, and "*/-5" is rejected.                *)
(***************************************************************************)
StepNeverNegative ==
    pc # "token" /\ HasPrefix(input, <<"*", "/">>) /\ fres.err = "nil" =>
        /\ fres.field.Type = Step
        /\ Len(fres.field.Values) = 1
        /\ fres.field.Values[1] >= 0

(***************************************************************************)
(* C4.  Parse splits the expression on runs of white space and requires at *)
(* least 5 tokens: with fewer it fails with a count error carrying the     *)
(* actual number of tokens; with exactly 5 well-formed tokens it succeeds  *)
(* with an empty task; with more than 5 the task is the tokens from the    *)
(* 6th onward joined by single spaces, and those tokens do not influence   *)
(* the five time fields.                                                   *)
(***************************************************************************)
TokenCountRule ==
    HasParsed =>
        LET toks == InputTokens
            n == Len(toks)
            five == Parse(Join(SubSeq(toks, 1, 5), <<" ">>))
        IN  /\ \A i \in 1..n : toks[i] # <<>> /\ \A k \in 1..Len(toks[i]) : ~IsSpace(toks[i][k])
            /\ n < 5 => err.kind = "count" /\ err.got = n /\ job = ZeroJob
            /\ n >= 5 => err.kind # "count"
            /\ n = 5 /\ (\A i \in 1..5 : WellFormed(toks[i])) =>
                    err = NoErr /\ job.Task = <<>>
            /\ n > 5 /\ err = NoErr =>
                    job.Task = Join(SubSeq(toks, 6, n), <<" ">>)
            /\ n > 5 =>
                    /\ err = five.err
                    /\ JobFields(job) = JobFields(five.job)

\* an expression with runs of white space and two task words has been parsed
TokenCountRuleWitness ==
    /\ pc = "parsed"
    /\ err = NoErr
    /\ Len(InputTokens) = 7
    /\ Len(input) > Len(Join(InputTokens, <<" ">>))
    /\ Len(job.Task) = Len(InputTokens[6]) + 1 + Len(InputTokens[7])

(***************************************************************************)
(* C5.  Every Field of a Job that Parse returns without error has the      *)
(* number of values of its kind (Exact 1, Every 0, Multiple at least 1,    *)
(* Range 2, Step 1, Any 0), so rendering such a Job or any of its Fields   *)
(* never takes a panicking branch of Field.String.                         *)
(***************************************************************************)
ParsedFieldsConsistent ==
    /\ HasParsed /\ err = NoErr =>
            \A i \in 1..5 : Consistent(JobFields(job)[i])
    /\ pc \in {"rendered", "reparsed"} => rendered.faults = {}

\* a Job with a Range field, parsed from an expression, has been rendered
ParsedFieldsConsistentWitness ==
    /\ pc = "rendered"
    /\ \E i \in 1..5 : JobFields(job)[i].Type = Range
    /\ rendered.s # <<>>

(***************************************************************************)
(* C6.  Parse succeeds only if each of the first five tokens is            *)
(* well-formed; otherwise it returns an error and the zero Job.  The       *)
(* fields are taken in the order minute, hour, day, month, dayOfWeek and   *)
(* the error names the first one that fails.  A malformed integer is never *)
(* replaced by a default value.                                            *)
(***************************************************************************)
FirstBadFieldReported ==
    HasParsed =>
        LET toks == InputTokens
            bad == {i \in 1..5 : ~WellFormed(toks[i])}
        IN  Len(toks) >= 5 =>
                IF bad = {}
                THEN err = NoErr
                ELSE /\ err.kind = "field"
                     /\ err.field = FieldNames[CHOOSE i \in bad : \A k \in bad : i <= k]
                     /\ err.cause # "nil"
                     /\ job = ZeroJob

\* two fields are malformed, and the earlier one, not the first of all, is named
FirstBadFieldReportedWitness ==
    /\ pc = "parsed"
    /\ Len(InputTokens) >= 5
    /\ WellFormed(InputTokens[1]) /\ WellFormed(InputTokens[2])
    /\ ~WellFormed(InputTokens[3]) /\ ~WellFormed(InputTokens[5])
    /\ err.field = "day"

(***************************************************************************)
(* C1.  Round trip on parsed Jobs: for every expression that Parse         *)
(* accepts, with j the Job it returns, Parse(j.String()) succeeds and      *)
(* returns a Job deep-equal to j: the same kind and values in each of the  *)
(* five fields, and the same task.                                         *)
(***************************************************************************)
RoundTripParsed ==
    pc = "reparsed" => err2 = NoErr /\ job2 = job

\* an accepted expression that is not in rendered form (a sign, a leading
\* zero or extra white space), with a Range field and a task, has gone round
RoundTripParsedWitness ==
    /\ pc = "reparsed"
    /\ rendered.s # input
    /\ job.Task # <<>>
    /\ \E i \in 1..5 : JobFields(job)[i].Type = Range

(***************************************************************************)
(* C9.  A Job in which one of the five fields has kind Any (token "?")     *)
(* matches no time at all, whatever the other four fields are.             *)
(***************************************************************************)
AnyNeverMatches ==
    pc = "checked" =>
        LET toks == InputTokens
        IN  (\E i \in 1..5 : IsMark(toks[i])) =>
                /\ \E i \in 1..5 : JobFields(job)[i].Type = Any
                /\ matched = FALSE

\* a Job parsed from "?" in one field and "*" in the other four has been matched
AnyNeverMatchesWitness ==
    /\ pc = "checked"
    /\ Cardinality({i \in 1..5 : JobFields(job)[i].Type = Any}) = 1
    /\ Cardinality({i \in 1..5 : JobFields(job)[i].Type = Every}) = 4

(***************************************************************************)
(* Matching as the data model states it, for a Field that satisfies the    *)
(* data model's invariants (a Step holds one positive divisor).            *)
(***************************************************************************)
Invariants(f) ==
    /\ Consistent(f)
    /\ f.Type = Step => f.Values[1] > 0

Matches(f, v) ==
    CASE f.Type = Exact -> v = f.Values[1]
      [] f.Type = Every -> TRUE
      [] f.Type = Multiple -> v \in {f.Values[i] : i \in 1..Len(f.Values)}
      [] f.Type = Range -> f.Values[1] <= v /\ v <= f.Values[2]
      [] f.Type = Step -> \E q \in 0..v : q * f.Values[1] = v
      [] f.Type = Any -> FALSE

(***************************************************************************)
(* C3.  Job matching is the logical AND of the five field predicates       *)
(* applied to (minute, hour, day of month, month, day of week) in that     *)
(* correspondence, where Exact{x} matches v iff v = x, Every always,       *)
(* Multiple iff v is a listed value, Range{low, high} iff low <= v <= high *)
(* (never when low > high), Step{n} iff v mod n = 0, and Any never.        *)
(***************************************************************************)
CheckIsConjunction ==
    pc = "checked" /\ (\A i \in 1..5 : Invariants(JobFields(job)[i])) =>
        matched = (\A i \in 1..5 : Matches(JobFields(job)[i], tm[i]))

\* a Job of a Range whose day is in range and four fields that match has
\* matched a time whose day and month differ
CheckIsConjunctionWitness ==
    /\ pc = "checked"
    /\ matched
    /\ job.Day.Type = Range
    /\ job.Month.Type = Exact
    /\ tm[3] # tm[4]

\* the Fields for which C10 names the result of matching
Degenerate(f) ==
    \/ f.Type = Step /\ Len(f.Values) = 1 /\ f.Values[1] <= 0
    \/ f.Type = Exact /\ Len(f.Values) # 1
    \/ f.Type = Range /\ Len(f.Values) # 2
    \/ f.Type \notin FieldTypes

(***************************************************************************)
(* C10.  Matching is total: for every Field, also one whose number of      *)
(* values does not fit its kind and one that Parse accepts with a zero or  *)
(* negative divisor, the predicate returns a boolean.  It returns false    *)
(* for a Step whose divisor is <= 0, for an Exact without exactly 1 value, *)
(* for a Range without exactly 2 values, and for an unknown kind.          *)
(***************************************************************************)
CheckIsTotal ==
    pc = "checked" =>
        /\ matched \in BOOLEAN
        /\ (\E i \in 1..5 : Degenerate(JobFields(job)[i])) => matched = FALSE

\* a Job whose hour is Step of a negative divisor, as "*/-1" parses, and whose
\* other fields match, has been matched against an hour the divisor divides
CheckIsTotalWitness ==
    /\ pc = "checked"
    /\ job.Hour = MkField(Step, <<0 - 1>>)
    /\ tm[2] = 2
    /\ \A i \in {1, 3, 4, 5} : check(JobFields(job)[i], tm[i])
    /\ matched = FALSE

(***************************************************************************)
(* C7.  Round trip on constructed Jobs.  A Job is validly constructed when *)
(* each Field has the number of values of its kind.  Two Jobs are          *)
(* equivalent when they match the same times and their tasks have the same *)
(* words.                                                                  *)
(***************************************************************************)
ValidJob(j) == \A i \in 1..5 : Consistent(JobFields(j)[i])

Equivalent(j1, j2) ==
    /\ \A t \in Times : Check(j1, t) = Check(j2, t)
    /\ Fields(j1.Task) = Fields(j2.Task)

\* the Field renders to a token that starts with a minus sign, or is a Range
\* whose second value does
BareNegative(f) ==
    \/ f.Type \in {Exact, Range} /\ \E i \in 1..Len(f.Values) : f.Values[i] < 0
    \/ f.Type = Multiple /\ Len(f.Values) = 1 /\ f.Values[1] < 0

\* C7 as claimed: for every validly-constructed Job j, with arbitrary integer
\* values, Parse(j.String()) succeeds and returns a Job equivalent to j
RoundTripConstructedAny ==
    pc = "reparsed" /\ ValidJob(job) =>
        err2 = NoErr /\ Equivalent(job, job2)

\* C7 as amended: for every validly-constructed Job j with no negative value
\* in an Exact, a Range or a single-value Multiple field, Parse(j.String())
\* succeeds and returns a Job equivalent to j
RoundTripConstructed ==
    pc = "reparsed" /\ ValidJob(job)
                    /\ (\A i \in 1..5 : ~BareNegative(JobFields(job)[i])) =>
        err2 = NoErr /\ Equivalent(job, job2)

\* a constructed Job with a single-value Multiple and a task of irregular
\* white space has gone round and come back equivalent without being equal
RoundTripConstructedWitness ==
    /\ pc = "reparsed"
    /\ ValidJob(job)
    /\ \E i \in 1..5 : JobFields(job)[i].Type = Multiple
                       /\ JobFields(job2)[i].Type = Exact
    /\ job2.Task # job.Task
    /\ err2 = NoErr /\ Equivalent(job, job2)

====
